---------------------------- MODULE Spec2Model ----------------------------
(***************************************************************************)
(* A model of the file-store client of isapi.py (src/files.py): the        *)
(* transport (_get, _rfmgr), the metadata tree (FileMeta, DirMeta,         *)
(* _meta_from_raw), the read-only queries (list_directory, file_info,      *)
(* get_file), the conflict-aware upload (upload_file) and the directory    *)
(* and drop-folder creation (mkdir, mkdrop).                               *)
(*                                                                         *)
(* One caller runs one public operation at a time.  Every wire request is  *)
(* one step: the request is sent, the remote side answers (or the request  *)
(* fails), and the client code runs up to its next request or its end.     *)
(* The remote store is the environment: what is modelled of it is stated   *)
(* with the Srv* definitions.  Another actor may change the store between  *)
(* any two steps of the caller.                                            *)
(*                                                                         *)
(* Strings are sequences of one-character strings; Python's None is the    *)
(* value None below, which is no such sequence.                            *)
(***************************************************************************)
EXTENDS Naturals, Sequences, FiniteSets

None == <<"None">>

\* ------------------------------------------------------------------
\* Strings and posixpath
\* ------------------------------------------------------------------

Slash == "/"

\* str.endswith("/"), also written is_path[-1:] == "/"
EndsWithSlash(s) == Len(s) > 0 /\ s[Len(s)] = Slash

StartsWithSlash(s) == Len(s) > 0 /\ s[1] = Slash

\* s.rfind("/") + 1: the index of the last separator, 0 when there is none
RFindSlash1(s) ==
    LET I == {i \in 1..Len(s) : s[i] = Slash}
    IN  IF I = {} THEN 0 ELSE CHOOSE i \in I : \A j \in I : j <= i

AllSlashes(s) == \A i \in 1..Len(s) : s[i] = Slash

\* s.rstrip("/")
RECURSIVE RStripSlash(_)
RStripSlash(s) ==
    IF EndsWithSlash(s) THEN RStripSlash(SubSeq(s, 1, Len(s) - 1)) ELSE s

\* posixpath.basename
Basename(p) == SubSeq(p, RFindSlash1(p) + 1, Len(p))

\* posixpath.dirname
Dirname(p) ==
    LET head == SubSeq(p, 1, RFindSlash1(p))
    IN  IF Len(head) > 0 /\ ~AllSlashes(head) THEN RStripSlash(head) ELSE head

\* posixpath.join(a, b)
Join(a, b) ==
    IF StartsWithSlash(b) THEN b
    ELSE IF Len(a) = 0 \/ EndsWithSlash(a) THEN a \o b
    ELSE a \o <<Slash>> \o b

\* path.split("/"): the components between separators, empty ones included
RECURSIVE SplitSlash(_)
SplitSlash(s) ==
    LET I == {i \in 1..Len(s) : s[i] = Slash}
    IN  IF I = {} THEN <<s>>
        ELSE LET i == CHOOSE k \in I : \A j \in I : k <= j
             IN  <<SubSeq(s, 1, i - 1)>> \o SplitSlash(SubSeq(s, i + 1, Len(s)))

Dot == <<".">>
DotDot == <<".", ".">>

\* the loop of posixpath.normpath over the components
RECURSIVE NormComps(_, _, _)
NormComps(comps, acc, initial) ==
    IF comps = <<>> THEN acc
    ELSE LET c == Head(comps)
             rest == Tail(comps)
         IN  IF c = <<>> \/ c = Dot THEN NormComps(rest, acc, initial)
             ELSE IF c # DotDot
                     \/ (initial = 0 /\ acc = <<>>)
                     \/ (acc # <<>> /\ acc[Len(acc)] = DotDot)
                  THEN NormComps(rest, Append(acc, c), initial)
             ELSE IF acc # <<>>
                  THEN NormComps(rest, SubSeq(acc, 1, Len(acc) - 1), initial)
             ELSE NormComps(rest, acc, initial)

\* "/".join(comps)
RECURSIVE JoinSlash(_)
JoinSlash(comps) ==
    IF comps = <<>> THEN <<>>
    ELSE IF Len(comps) = 1 THEN comps[1]
    ELSE comps[1] \o <<Slash>> \o JoinSlash(Tail(comps))

\* posixpath.normpath
Normpath(p) ==
    IF p = <<>> THEN Dot
    ELSE LET initial ==
                 IF ~StartsWithSlash(p) THEN 0
                 ELSE IF Len(p) >= 2 /\ p[2] = Slash /\ ~(Len(p) >= 3 /\ p[3] = Slash)
                      THEN 2 ELSE 1
             body == JoinSlash(NormComps(SplitSlash(p), <<>>, initial))
             full == [i \in 1..initial |-> Slash] \o body
         IN  IF full = <<>> THEN Dot ELSE full


\* ------------------------------------------------------------------
\* The remote store (environment)
\* ------------------------------------------------------------------

\* The remote paths the model follows: a folder /d, an entry /d/x in it
\* (absent, a file or a folder) and an entry /d/x/f below that.
PD == <<"/", "d">>
PX == <<"/", "d", "/", "x">>
PF == <<"/", "d", "/", "x", "/", "f">>
Universe == {PD, PX, PF}

\* file contents: 1..MaxData; 0 is the page the download endpoint serves for
\* a path that holds no file
MaxData == 2
Contents == 1..MaxData
NoFilePage == 0

\* the three per-file attributes mkdrop enables
DropAttrs == {<<"pridatprijm">>, <<"pridatuco">>, <<"vsechnacteni">>}

Absent == [kind |-> "absent", nazev |-> None, popis |-> None, data |-> NoFilePage,
           opened |-> FALSE, grant |-> None, attrs |-> {}]

NewDir(nazev, popis) ==
    [kind |-> "dir", nazev |-> nazev, popis |-> popis, data |-> NoFilePage,
     opened |-> FALSE, grant |-> None, attrs |-> {}]

NewFile(nazev, popis, data) ==
    [kind |-> "file", nazev |-> nazev, popis |-> popis, data |-> data,
     opened |-> FALSE, grant |-> None, attrs |-> {}]

\* the node a URL names: trailing separators do not matter to the server
SrvKey(url) == IF AllSlashes(url) THEN <<Slash>> ELSE RStripSlash(url)

SrvNode(st, k) == IF k \in Universe THEN st[k] ELSE Absent

SrvIsDir(st, k) == SrvNode(st, k).kind = "dir"

\* the present entries directly below k
SrvChildren(st, k) ==
    {c \in Universe : st[c].kind # "absent" /\ Dirname(c) = k}

\* a set of paths as a sequence, shortest path first
RECURSIVE SeqOfPaths(_)
SeqOfPaths(S) ==
    IF S = {} THEN <<>>
    ELSE LET c == CHOOSE x \in S : \A y \in S : Len(x) <= Len(y)
         IN  <<c>> \o SeqOfPaths(S \ {c})

\* the model never holds an entry under a missing folder or under a file
WellFormed(st) ==
    \A c \in Universe :
        (st[c].kind # "absent" /\ Dirname(c) \in Universe) => st[Dirname(c)].kind = "dir"

\* ------------------------------------------------------------------
\* Wire records of the directory query (fmgr_api, format=json)
\* ------------------------------------------------------------------

\* the "objekt" record embedded in a node that holds a stored file
SrvObject(st, k) ==
    [cesta |-> k, jmeno_souboru |-> Basename(k), mime_type |-> <<"m">>,
     objekt_id |-> <<"1">>]

\* one node record, without its children
SrvRawNode(st, k) ==
    [cesta |-> k,
     zkratka |-> Basename(k),
     nazev |-> st[k].nazev,
     popis |-> st[k].popis,
     pocet_poduzlu |-> Cardinality(SrvChildren(st, k)),
     objekty |-> (IF st[k].kind = "file" THEN <<SrvObject(st, k)>> ELSE <<>>),
     poduzly |-> <<>>]

\* the answer of the directory query for k: the node with one level of children
SrvUzel(st, k) ==
    LET kids == SeqOfPaths(SrvChildren(st, k))
    IN  [SrvRawNode(st, k) EXCEPT
            !.poduzly = [i \in 1..Len(kids) |-> SrvRawNode(st, kids[i])]]

\* ------------------------------------------------------------------
\* Metadata tree model
\* ------------------------------------------------------------------

\* FileMeta.__init__
FileMeta(data) ==
    LET hasobj == Len(data.objekty) > 0
        obj == data.objekty[1]
    IN  [dir |-> FALSE,
         ispath |-> (IF hasobj THEN obj.cesta ELSE data.cesta),
         shortname |-> (IF hasobj THEN obj.jmeno_souboru ELSE data.zkratka),
         name |-> (IF hasobj /\ data.nazev = None THEN obj.jmeno_souboru ELSE data.nazev),
         annotation |-> data.popis,
         mime |-> (IF hasobj THEN obj.mime_type ELSE None),
         objid |-> (IF hasobj THEN obj.objekt_id ELSE None),
         entries |-> <<>>]

\* DirMeta.__init__
DirMeta(data) == [FileMeta(data) EXCEPT !.dir = TRUE, !.entries = <<>>]

\* _meta_from_raw
MetaFromRaw(raw) ==
    IF raw.pocet_poduzlu = 0 THEN FileMeta(raw) ELSE DirMeta(raw)

\* a mutant of AppendAll: every child record is put in front of the entries
AppendAll_InFront(dirmeta, poduzly) ==
    [dirmeta EXCEPT !.entries =
        [i \in 1..Len(poduzly) |-> MetaFromRaw(poduzly[Len(poduzly) + 1 - i])]]

\* DirMeta._append, for every child record of the answer in turn
AppendAll(dirmeta, poduzly) ==
    [dirmeta EXCEPT !.entries = [i \in 1..Len(poduzly) |-> MetaFromRaw(poduzly[i])]]

\* Python's None where a FileMeta is expected
NoMeta == [dir |-> FALSE, ispath |-> None, shortname |-> None, name |-> None,
           annotation |-> None, mime |-> None, objid |-> None, entries |-> <<>>]

\* DirMeta.get: the first entry with that short name, or None
DirGet(dirmeta, filename) ==
    LET I == {i \in 1..Len(dirmeta.entries) : dirmeta.entries[i].shortname = filename}
    IN  IF I = {} THEN NoMeta
        ELSE dirmeta.entries[CHOOSE i \in I : \A j \in I : i <= j]


\* ------------------------------------------------------------------
\* Error strings
\* ------------------------------------------------------------------

\* Connection.EXISTS_MSG and Connection.SHORT_EXISTS_MSG, and the "not found"
\* string _get_info matches; a message is a sequence of words
EXISTS_MSG == <<"slozka", "nazev", "existuje">>
SHORT_EXISTS_MSG == <<"zkratka", "existuje">>
NOT_FOUND_MSG == <<"nenalezen">>

\* the literal strings the server answers with
SrvExistsText == <<"chyba">> \o EXISTS_MSG
SrvShortExistsText == SHORT_EXISTS_MSG
SrvFileExistsText == <<"soubor", "existuje">>
SrvOtherText == <<"jina", "chyba">>
EmptyText == <<>>

\* needle in hay (Python's substring test)
Contains(hay, needle) ==
    \E i \in 0..Len(hay) :
        i + Len(needle) <= Len(hay) /\ SubSeq(hay, i + 1, i + Len(needle)) = needle

\* ------------------------------------------------------------------
\* The remote file manager rfmgr.pl (environment)
\* ------------------------------------------------------------------

Field(form, k) == IF k \in DOMAIN form THEN form[k] ELSE None

JsonOk == [chyba |-> None, radky |-> <<>>]
JsonErr(text) == [chyba |-> text, radky |-> <<>>]

\* the write-permission mode the permission view of a new folder shows
SrvWMode == <<"w">>

ChildPath(parent, short) ==
    IF parent = <<Slash>> THEN parent \o short ELSE parent \o <<Slash>> \o short

\* op=vlsl, create folder: fails when the parent is no folder; reports one of
\* the two "already exists" strings when the entry is there; creates otherwise
SrvMkdir(st, form) ==
    LET parent == SrvKey(form.furl)
        short == Field(form, "zkratka_1")
        target == ChildPath(parent, short)
    IN  IF ~SrvIsDir(st, parent) \/ short = <<>> \/ short = None \/ target \notin Universe
        THEN {[st |-> st, json |-> JsonErr(SrvOtherText)]}
        ELSE IF st[target].kind # "absent"
        THEN {[st |-> st, json |-> JsonErr(SrvExistsText)],
              [st |-> st, json |-> JsonErr(SrvShortExistsText)]}
        ELSE {[st |-> [st EXCEPT ![target] =
                          NewDir(Field(form, "nazev_1"), Field(form, "popis_1"))],
               json |-> JsonOk]}

\* op=zmpr2, open the permission view of folder ch: the answer lists, under the
\* key ch, the write mode granted
SrvOpenPerms(st, form) ==
    LET target == SrvKey(form.ch)
    IN  IF ~SrvIsDir(st, target)
        THEN {[st |-> st, json |-> JsonErr(SrvOtherText)]}
        ELSE {[st |-> [st EXCEPT ![target].opened = TRUE],
               json |-> [chyba |-> None, radky |-> [k \in {form.ch} |-> SrvWMode]]]}

\* op=zmpr, add a permission to folder ch
SrvAddPerm(st, form) ==
    LET target == SrvKey(form.ch)
    IN  IF ~SrvIsDir(st, target)
        THEN {[st |-> st, json |-> JsonErr(SrvOtherText)]}
        ELSE {[st |-> [st EXCEPT ![target].grant = form.pridat], json |-> JsonOk]}

\* op=zmat, set the attributes named by the d_atributy_0_* fields on churl_0
SrvSetAttrs(st, form) ==
    LET target == SrvKey(form.churl_0)
        named == {Field(form, "d_atributy_0_pridatprijm"),
                  Field(form, "d_atributy_0_pridatuco"),
                  Field(form, "d_atributy_0_vsechnacteni")} \ {None}
    IN  IF ~SrvIsDir(st, target)
        THEN {[st |-> st, json |-> JsonErr(SrvOtherText)]}
        ELSE {[st |-> [st EXCEPT ![target].attrs = @ \cup named], json |-> JsonOk]}

\* op=vlso, upload: the server enforces the collision code.  er: an error when
\* the name is taken; wr: the file is replaced; re: the upload is stored under a
\* new name, which lies outside the paths the model follows.
SrvUpload(st, form, data) ==
    LET parent == SrvKey(form.furl)
        short == Field(form, "jmeno_souboru_0")
        target == ChildPath(parent, short)
        new == NewFile(Field(form, "nazev_0"), Field(form, "popis_0"), data)
    IN  IF ~SrvIsDir(st, parent) \/ short = <<>> \/ target \notin Universe
        THEN {[st |-> st, json |-> JsonErr(SrvOtherText)]}
        ELSE IF st[target].kind = "absent"
        THEN {[st |-> [st EXCEPT ![target] = new], json |-> JsonOk]}
        ELSE IF form.kolize = <<"e", "r">>
        THEN {[st |-> st, json |-> JsonErr(SrvFileExistsText)]}
        ELSE IF form.kolize = <<"r", "e">>
        THEN {[st |-> st, json |-> JsonOk]}
        ELSE IF form.kolize = <<"w", "r">> /\ st[target].kind = "file"
        THEN {[st |-> [st EXCEPT ![target] = new], json |-> JsonOk]}
        ELSE {[st |-> st, json |-> JsonErr(SrvOtherText)]}

\* what rfmgr.pl does with a form, by its op field
SrvPost(st, form, data) ==
    IF form.op = <<"vlsl">> THEN SrvMkdir(st, form)
    ELSE IF form.op = <<"zmpr2">> THEN SrvOpenPerms(st, form)
    ELSE IF form.op = <<"zmpr">> THEN SrvAddPerm(st, form)
    ELSE IF form.op = <<"zmat">> THEN SrvSetAttrs(st, form)
    ELSE IF form.op = <<"vlso">> THEN SrvUpload(st, form, data)
    ELSE {[st |-> st, json |-> JsonErr(SrvOtherText)]}

\* the HTTP answers to a POST: the server's own answer, applied to the store
HttpOk(json) == [net |-> FALSE, status |-> 200, body |-> "json", json |-> json]

PostAnswers(st, form, data) ==
    {[st |-> r.st, rsp |-> HttpOk(r.json), fault |-> FALSE] : r \in SrvPost(st, form, data)}

\* the answers of a request that fails: no connection, a status other than
\* 200, the non-personal-account page, a body that is no JSON object, or an
\* error the server reports for reasons of its own.  The store is not changed.
PostFaults ==
    {[net |-> TRUE, status |-> 0, body |-> "other", json |-> JsonOk],
     [net |-> FALSE, status |-> 500, body |-> "json", json |-> JsonOk],
     [net |-> FALSE, status |-> 500, body |-> "perm", json |-> JsonOk],
     [net |-> FALSE, status |-> 200, body |-> "perm", json |-> JsonOk],
     [net |-> FALSE, status |-> 200, body |-> "other", json |-> JsonOk],
     HttpOk(JsonErr(SrvOtherText)),
     HttpOk(JsonErr(EmptyText))}


\* ------------------------------------------------------------------
\* Transport (client side)
\* ------------------------------------------------------------------

\* what a call of the transport gives its caller: a value, or an exception
Returned(json) == [raised |-> FALSE, exc |-> "", api_error |-> None, why |-> "", json |-> json]
Raised(exc, api_error, why) ==
    [raised |-> TRUE, exc |-> exc, api_error |-> api_error, why |-> why, json |-> JsonOk]

\* _rfmgr, the form sent: furl ends with a separator, fields that are None
\* are deleted
RfmgrForm(args) ==
    LET a == IF "furl" \in DOMAIN args /\ ~EndsWithSlash(args.furl)
             THEN [args EXCEPT !.furl = @ \o <<Slash>>] ELSE args
    IN  [k \in {x \in DOMAIN a : a[x] # None} |-> a[k]]

\* a mutant of RfmgrResult: the exception for the server's error does not carry
\* the server's string
RfmgrResult_NoApiError(rsp) ==
    IF rsp.net THEN Raised("FileAPIException", None, "connection")
    ELSE IF rsp.status # 200 THEN Raised("FileAPIException", None, "status")
    ELSE IF rsp.body = "perm" THEN Raised("FileAPIException", None, "permission")
    ELSE IF rsp.body # "json" THEN Raised("FileAPIException", None, "format")
    ELSE IF rsp.json.chyba # None
         THEN Raised("FileAPIException", None, "chyba")
    ELSE Returned(rsp.json)

\* a mutant of RfmgrResult: the body is looked at before the status
RfmgrResult_BodyFirst(rsp) ==
    IF rsp.net THEN Raised("FileAPIException", None, "connection")
    ELSE IF rsp.body = "perm" THEN Raised("FileAPIException", None, "permission")
    ELSE IF rsp.status # 200 THEN Raised("FileAPIException", None, "status")
    ELSE IF rsp.body # "json" THEN Raised("FileAPIException", None, "format")
    ELSE IF rsp.json.chyba # None
         THEN Raised("FileAPIException", rsp.json.chyba, "chyba")
    ELSE Returned(rsp.json)

\* _rfmgr, the classification of the answer
RfmgrResult(rsp) ==
    IF rsp.net THEN Raised("FileAPIException", None, "connection")
    ELSE IF rsp.status # 200 THEN Raised("FileAPIException", None, "status")
    ELSE IF rsp.body = "perm" THEN Raised("FileAPIException", None, "permission")
    ELSE IF rsp.body # "json" THEN Raised("FileAPIException", None, "format")
    ELSE IF rsp.json.chyba # None
         THEN Raised("FileAPIException", rsp.json.chyba, "chyba")
    ELSE Returned(rsp.json)

\* every answer a POST of this form can get
PostReplies(st, form, data) ==
    PostAnswers(st, form, data)
        \cup {[st |-> st, rsp |-> f, fault |-> TRUE] : f \in PostFaults}

\* the answers of the directory query fmgr_api?url=path;format=json
NoUzel == [cesta |-> None, zkratka |-> None, nazev |-> None, popis |-> None,
           pocet_poduzlu |-> 0, objekty |-> <<>>, poduzly |-> <<>>]

SrvInfo(st, path) ==
    LET k == SrvKey(path)
    IN  IF SrvNode(st, k).kind = "absent"
        THEN [net |-> FALSE, body |-> "json", chyba |-> NOT_FOUND_MSG, uzel |-> NoUzel]
        ELSE [net |-> FALSE, body |-> "json", chyba |-> None, uzel |-> SrvUzel(st, k)]

InfoFaults ==
    {[net |-> TRUE, body |-> "other", chyba |-> None, uzel |-> NoUzel],
     [net |-> FALSE, body |-> "other", chyba |-> None, uzel |-> NoUzel],
     [net |-> FALSE, body |-> "json", chyba |-> SrvOtherText, uzel |-> NoUzel]}

InfoReplies(st, path) == {SrvInfo(st, path)} \cup InfoFaults

\* _get followed by _get_info's decoding of the answer
InfoReturned(uzel) ==
    [raised |-> FALSE, exc |-> "", api_error |-> None, why |-> "", uzel |-> uzel]
InfoRaised(exc, why) ==
    [raised |-> TRUE, exc |-> exc, api_error |-> None, why |-> why, uzel |-> NoUzel]

GetInfoResult(rsp) ==
    IF rsp.net THEN InfoRaised("FileAPIException", "connection")
    ELSE IF rsp.body # "json" THEN InfoRaised("FileAPIException", "format")
    ELSE IF rsp.chyba # None
         THEN IF rsp.chyba = NOT_FOUND_MSG
              THEN InfoRaised("FileDoesNotExistException", "notfound")
              ELSE InfoRaised("FileAPIException", "chyba")
    ELSE InfoReturned(rsp.uzel)

\* the answers of the download endpoint: the file's bytes, or a page of the
\* server's when the path holds no file; the download reports no error
SrvDownload(st, path) ==
    LET n == SrvNode(st, SrvKey(path))
    IN  [net |-> FALSE, content |-> (IF n.kind = "file" THEN n.data ELSE NoFilePage)]

DownloadReplies(st, path) ==
    {SrvDownload(st, path), [net |-> TRUE, content |-> NoFilePage]}

\* ------------------------------------------------------------------
\* OnConflict
\* ------------------------------------------------------------------

Policies == {"Error", "Overwrite", "Rename", "Ignore", "UpdateIfDifferent"}

\* raised by to_is for the client-side policies
ValueError == <<"ValueError">>

\* a mutant of ToIs: Error is sent as the code of Overwrite
ToIs_ErrorOverwrites(policy) ==
    IF policy = "Error" THEN <<"w", "r">>
    ELSE IF policy = "Overwrite" THEN <<"w", "r">>
    ELSE IF policy = "Rename" THEN <<"r", "e">>
    ELSE ValueError

\* OnConflict.to_is
ToIs(policy) ==
    IF policy = "Error" THEN <<"e", "r">>
    ELSE IF policy = "Overwrite" THEN <<"w", "r">>
    ELSE IF policy = "Rename" THEN <<"r", "e">>
    ELSE ValueError

\* ------------------------------------------------------------------
\* datetime.strftime("%Y%m%d%H%M")
\* ------------------------------------------------------------------

DigitChar(n) ==
    CASE n = 0 -> "0" [] n = 1 -> "1" [] n = 2 -> "2" [] n = 3 -> "3" [] n = 4 -> "4"
      [] n = 5 -> "5" [] n = 6 -> "6" [] n = 7 -> "7" [] n = 8 -> "8" [] n = 9 -> "9"

\* n in decimal, zero-padded to w digits
RECURSIVE Padded(_, _)
Padded(n, w) ==
    IF w = 0 THEN <<>> ELSE Padded(n \div 10, w - 1) \o <<DigitChar(n % 10)>>

\* a datetime is <<year, month, day, hour, minute>>
Strftime(dt) ==
    Padded(dt[1], 4) \o Padded(dt[2], 2) \o Padded(dt[3], 2)
        \o Padded(dt[4], 2) \o Padded(dt[5], 2)


\* ------------------------------------------------------------------
\* State
\* ------------------------------------------------------------------

VARIABLES
    store,       \* the remote store: Universe -> node
    pc,          \* where the caller is: "idle", the next wire request, or "done"
    call,        \* the operation in progress and its arguments
    loc,         \* the local variables of the operation
    wire,        \* the wire requests of the operation so far, in order
    ret,         \* how the operation ended: a value or an exception
    lastMade,    \* the path the caller's previous operation, a mkdir, created; else None
    otherActed,  \* another actor changed the store since the caller's last call began
    store0,      \* the store as it was when the operation was called
    peer         \* a second caller of mkdir, on a connection of its own

vars == <<store, pc, call, loc, wire, ret, lastMade, otherActed, store0, peer>>

NoCall ==
    [op |-> "none", is_path |-> None, long_name |-> None, description |-> None,
     deadline |-> None, file_path |-> None, as_path |-> None, on_conflict |-> "Error",
     local |-> NoFilePage, after |-> None,
     use_metadata |-> FALSE, ignore_top_level_dir |-> FALSE, overwrite |-> FALSE]

\* no answer received yet
NoResponse == [net |-> FALSE, status |-> 0, body |-> "none", json |-> JsonOk]

NoLoc ==
    [is_path |-> None, created |-> None, base |-> None, new_mode |-> None,
     furl |-> None, basename |-> None, on_conflict |-> "Error", listed |-> FALSE,
     path |-> None, meta |-> NoMeta, content |-> NoFilePage, to_is |-> "none",
     rsp |-> NoResponse, uzel |-> NoUzel, odd |-> FALSE]

NoRet == [kind |-> "none", val |-> "", exc |-> "", api_error |-> None, why |-> ""]
Return(val) == [kind |-> "return", val |-> val, exc |-> "", api_error |-> None, why |-> ""]
Raise(exc, api_error, why) ==
    [kind |-> "raise", val |-> "", exc |-> exc, api_error |-> api_error, why |-> why]
\* a mutant of Propagate: the exception is swallowed
Propagate_Swallow(r) == Return("None")

\* an exception of the transport passed on unchanged
Propagate(r) == Raise(r.exc, r.api_error, r.why)

\* the second caller before its call: its position, arguments, local is_path,
\* result, and the store as it was when it called
NoPeer ==
    [pc |-> "idle", arg |-> None, long_name |-> None, description |-> None,
     is_path |-> None, ret |-> NoRet, fault |-> FALSE, before |-> [k \in Universe |-> Absent]]

\* one line of the wire log
Sent(verb, op, kolize, r, fault) ==
    [verb |-> verb, op |-> op, kolize |-> kolize, ok |-> ~r.raised, why |-> r.why,
     api_error |-> r.api_error, fault |-> fault]

\* ------------------------------------------------------------------
\* Inputs
\* ------------------------------------------------------------------

\* (long_name, description) of an upload, and of a mkdir or mkdrop
Labels == {<<None, None>>, <<<<"A">>, None>>, <<<<"A">>, <<"B">>>>}
DirLabels == {<<None, None>>, <<<<"A">>, <<"B">>>>}
Deadlines == {None, <<2026, 1, 5, 9, 30>>}

MkdirPaths == {PX, PX \o <<Slash, Slash>>, PF, <<>>, <<Slash>>, <<Slash, Slash>>}
MkdropPaths == {PX, PX \o <<Slash>>}

\* (file_path, is_path, as_path) of upload_file
UploadTargets ==
    {<<<<"x">>, PD, None>>,
     <<<<"x">>, PD, <<"x", "/", "f">>>>,
     <<<<"l", "/", "f">>, PX \o <<Slash>>, None>>}

GetPaths == {PD, PX, PF}

\* the stores a run starts from: /d alone; /d/x a file; /d/x an empty folder;
\* /d/x a folder holding the file f
FileA == NewFile(<<"A">>, None, 1)
InitStores ==
    {[k \in Universe |-> IF k = PD THEN NewDir(<<"d">>, None) ELSE Absent],
     [k \in Universe |-> IF k = PD THEN NewDir(<<"d">>, None)
                         ELSE IF k = PX THEN FileA ELSE Absent],
     [k \in Universe |-> IF k = PD THEN NewDir(<<"d">>, None)
                         ELSE IF k = PX THEN NewDir(<<"x">>, None) ELSE Absent],
     [k \in Universe |-> IF k = PD THEN NewDir(<<"d">>, None)
                         ELSE IF k = PX THEN NewDir(<<"A">>, None) ELSE FileA]}

Init ==
    /\ store \in InitStores
    /\ pc = "idle"
    /\ call = NoCall
    /\ loc = NoLoc
    /\ wire = <<>>
    /\ ret = NoRet
    /\ lastMade = None
    /\ otherActed = FALSE
    /\ store0 = store
    /\ peer = NoPeer

\* ------------------------------------------------------------------
\* Calls
\* ------------------------------------------------------------------

\* what every call does to the bookkeeping
Begin(c, l, next) ==
    /\ call' = [c EXCEPT !.after = (IF otherActed THEN None ELSE lastMade)]
    /\ loc' = l
    /\ pc' = next
    /\ wire' = <<>>
    /\ ret' = NoRet
    /\ store0' = store
    /\ otherActed' = FALSE
    /\ UNCHANGED <<store, lastMade, peer>>

\* mkdir(is_path, long_name, description)
CallMkdir ==
    /\ pc = "idle"
    /\ \E p \in MkdirPaths, lb \in DirLabels :
           Begin([NoCall EXCEPT !.op = "mkdir", !.is_path = p,
                                !.long_name = lb[1], !.description = lb[2]],
                 [NoLoc EXCEPT !.is_path = p],
                 "strip")

\* mkdrop(is_path, long_name, description, deadline)
CallMkdrop ==
    /\ pc = "idle"
    /\ \E p \in MkdropPaths, lb \in DirLabels, dl \in Deadlines :
           Begin([NoCall EXCEPT !.op = "mkdrop", !.is_path = p, !.long_name = lb[1],
                                !.description = lb[2], !.deadline = dl],
                 [NoLoc EXCEPT !.is_path = p],
                 "strip")

\* upload_file up to its first wire request: the effective name and folder
UploadBasename(file_path, as_path) ==
    Basename(IF as_path = None THEN Basename(file_path) ELSE as_path)

UploadFurl(file_path, is_path, as_path) ==
    LET as == IF as_path = None THEN Basename(file_path) ELSE as_path
    IN  Normpath(Join(is_path, Dirname(as)))

ClientSide(policy) == policy \in {"Ignore", "UpdateIfDifferent"}

\* upload_file(file_path, is_path, as_path, long_name, description, on_conflict)
CallUploadFile ==
    /\ pc = "idle"
    /\ \E t \in UploadTargets, lb \in Labels, oc \in Policies, d \in Contents :
           Begin([NoCall EXCEPT !.op = "upload_file", !.file_path = t[1], !.is_path = t[2],
                                !.as_path = t[3], !.long_name = lb[1],
                                !.description = lb[2], !.on_conflict = oc, !.local = d],
                 [NoLoc EXCEPT !.basename = UploadBasename(t[1], t[3]),
                               !.furl = UploadFurl(t[1], t[2], t[3]),
                               !.on_conflict = oc],
                 IF ClientSide(oc) THEN "list" ELSE "vlso")

\* get_file(path)
CallGetFile ==
    /\ pc = "idle"
    /\ \E p \in GetPaths :
           Begin([NoCall EXCEPT !.op = "get_file", !.is_path = p],
                 [NoLoc EXCEPT !.path = p],
                 "download")


\* ------------------------------------------------------------------
\* Steps common to the operations
\* ------------------------------------------------------------------

\* the operation ends with r
Done(r) ==
    /\ pc' = "done"
    /\ ret' = r

\* a truthy string: neither None nor empty
Truthy(s) == s # None /\ s # <<>>

\* the path a finished mkdir created (as the server resolves it), else None
MadeBy(c, r) ==
    IF c.op = "mkdir" /\ r.kind = "return" /\ r.val = "True"
    THEN SrvKey(c.is_path) ELSE None

\* the caller takes the result and is free to call again
Finish ==
    /\ pc = "done"
    /\ pc' = "idle"
    /\ lastMade' = MadeBy(call, ret)
    /\ call' = NoCall
    /\ loc' = NoLoc
    /\ wire' = <<>>
    /\ ret' = NoRet
    /\ store0' = store
    /\ UNCHANGED <<store, otherActed, peer>>

\* ------------------------------------------------------------------
\* mkdir and mkdrop
\* ------------------------------------------------------------------

\* _mkdir, one turn of "while is_path[-1:] == '/': is_path = dirname(is_path)"
\* (loc.odd tells an odd number of turns taken from an even one)
MkdirStrip ==
    /\ pc = "strip"
    /\ IF EndsWithSlash(loc.is_path)
       THEN /\ loc' = [loc EXCEPT !.is_path = Dirname(@), !.odd = ~@]
            /\ pc' = "strip"
       ELSE /\ loc' = loc
            /\ pc' = "vlsl"
    /\ UNCHANGED <<store, call, wire, ret, lastMade, otherActed, store0, peer>>

\* _mkdir, the arguments of the create-folder request
MkdirArgs(is_path, long_name, description) ==
    LET dirname == Basename(is_path)
        path == Dirname(is_path)
    IN  [op |-> <<"vlsl">>,
         furl |-> path,
         zkratka_1 |-> dirname,
         nazev_1 |-> (IF Truthy(long_name) THEN long_name ELSE dirname),
         popis_1 |-> description]

\* a mutant of MkdirCatches: only the long-name string is recognised
MkdirCatches_LongNameOnly(r) ==
    /\ r.raised
    /\ r.exc = "FileAPIException"
    /\ Truthy(r.api_error)
    /\ Contains(r.api_error, EXISTS_MSG)

\* a mutant of MkdirCatches: every error the server reports is swallowed
MkdirCatches_AnyApiError(r) ==
    /\ r.raised
    /\ r.exc = "FileAPIException"
    /\ Truthy(r.api_error)

\* a mutant of MkdirCatches: only the short-name string is recognised
MkdirCatches_ShortNameOnly(r) ==
    /\ r.raised
    /\ r.exc = "FileAPIException"
    /\ Truthy(r.api_error)
    /\ Contains(r.api_error, SHORT_EXISTS_MSG)

\* _mkdir, the except clause: the failure is turned into the result None
MkdirCatches(r) ==
    /\ r.raised
    /\ r.exc = "FileAPIException"
    /\ Truthy(r.api_error)
    /\ (Contains(r.api_error, EXISTS_MSG) \/ Contains(r.api_error, SHORT_EXISTS_MSG))

\* mkdrop: "created" and "base"
MkdropCreated(is_path) ==
    IF EndsWithSlash(is_path) THEN is_path ELSE is_path \o <<Slash>>

MkdropBase(created) == Dirname(Dirname(created))

\* a mutant of MkdropAfterMkdir: the folder is set up whatever _mkdir returned
MkdropAfterMkdir_Always(resIsNone) == "zmpr2"

\* mkdrop after _mkdir returned res: stop when res is None, else open the folder
MkdropAfterMkdir(resIsNone) == IF resIsNone THEN "done" ELSE "zmpr2"

\* the create-folder request of _mkdir, and what mkdir or mkdrop does with its
\* result
MkdirCreate ==
    /\ pc = "vlsl"
    /\ LET args == MkdirArgs(loc.is_path, call.long_name, call.description)
       IN  \E a \in PostReplies(store, RfmgrForm(args), NoFilePage) :
             LET r == RfmgrResult(a.rsp)
                 resIsNone == MkdirCatches(r)
             IN  /\ store' = a.st
                 /\ wire' = Append(wire, Sent("POST", "vlsl", None, r, a.fault))
                 /\ IF r.raised /\ ~resIsNone
                    THEN Done(Propagate(r)) /\ loc' = loc
                    ELSE IF call.op = "mkdir"
                    THEN Done(Return(IF resIsNone THEN "False" ELSE "True")) /\ loc' = loc
                    ELSE IF MkdropAfterMkdir(resIsNone) = "done"
                    THEN Done(Return("False")) /\ loc' = loc
                    ELSE /\ pc' = "zmpr2"
                         /\ ret' = ret
                         /\ loc' = [loc EXCEPT
                                !.created = MkdropCreated(call.is_path),
                                !.base = MkdropBase(MkdropCreated(call.is_path))]
    /\ UNCHANGED <<call, lastMade, otherActed, store0, peer>>

\* mkdrop: the mode of the time-bounded write grant
MkdropNewMode(mode, deadline) == mode \o <<"@">> \o Strftime(deadline)

\* a mutant of MkdropAfterOpen: the time-bounded grant is never added
MkdropAfterOpen_NoGrant(deadline) == "zmat"

\* mkdrop after the permission view was opened
MkdropAfterOpen(deadline) == IF deadline # None THEN "zmpr" ELSE "zmat"

\* mkdrop: the open-permissions request
MkdropOpen ==
    /\ pc = "zmpr2"
    /\ LET args == [op |-> <<"zmpr2">>, furl |-> loc.base, akce |-> <<"zxpro">>,
                    ch |-> loc.created]
       IN  \E a \in PostReplies(store, RfmgrForm(args), NoFilePage) :
             LET r == RfmgrResult(a.rsp)
             IN  /\ store' = a.st
                 /\ wire' = Append(wire, Sent("POST", "zmpr2", None, r, a.fault))
                 /\ IF r.raised
                    THEN Done(Propagate(r)) /\ loc' = loc
                    ELSE IF MkdropAfterOpen(call.deadline) = "zmat"
                    THEN pc' = "zmat" /\ ret' = ret /\ loc' = loc
                    ELSE IF loc.created \notin DOMAIN r.json.radky
                    THEN Done(Raise("KeyError", None, "")) /\ loc' = loc
                    ELSE /\ pc' = "zmpr"
                         /\ ret' = ret
                         /\ loc' = [loc EXCEPT !.new_mode =
                                MkdropNewMode(r.json.radky[loc.created], call.deadline)]
    /\ UNCHANGED <<call, lastMade, otherActed, store0, peer>>

\* mkdrop: the add-permission request
MkdropGrant ==
    /\ pc = "zmpr"
    /\ LET args == [op |-> <<"zmpr">>, pridat |-> loc.new_mode, furl |-> loc.base,
                    ch |-> loc.created]
       IN  \E a \in PostReplies(store, RfmgrForm(args), NoFilePage) :
             LET r == RfmgrResult(a.rsp)
             IN  /\ store' = a.st
                 /\ wire' = Append(wire, Sent("POST", "zmpr", None, r, a.fault))
                 /\ IF r.raised
                    THEN Done(Propagate(r))
                    ELSE pc' = "zmat" /\ ret' = ret
    /\ UNCHANGED <<call, loc, lastMade, otherActed, store0, peer>>

\* mkdrop: the set-attributes request, and the return
MkdropAttrs ==
    /\ pc = "zmat"
    /\ LET args == [op |-> <<"zmat">>,
                    d_atributy_0_pridatprijm |-> <<"pridatprijm">>,
                    d_atributy_0_pridatuco |-> <<"pridatuco">>,
                    d_atributy_0_vsechnacteni |-> <<"vsechnacteni">>,
                    churl_0 |-> loc.created,
                    furl |-> loc.base]
       IN  \E a \in PostReplies(store, RfmgrForm(args), NoFilePage) :
             LET r == RfmgrResult(a.rsp)
             IN  /\ store' = a.st
                 /\ wire' = Append(wire, Sent("POST", "zmat", None, r, a.fault))
                 /\ IF r.raised THEN Done(Propagate(r)) ELSE Done(Return("True"))
    /\ UNCHANGED <<call, loc, lastMade, otherActed, store0, peer>>


\* ------------------------------------------------------------------
\* get_file (called by the caller, or by upload_file to compare contents)
\* ------------------------------------------------------------------

\* a mutant of ListDirectory: the root is classified like any other node
ListDirectory_FromRaw(uzel) == AppendAll(MetaFromRaw(uzel), uzel.poduzly)

\* list_directory, from the decoded answer: the root as a DirMeta, then every
\* child record appended
ListDirectory(uzel) == AppendAll(DirMeta(uzel), uzel.poduzly)

\* file_info, from the decoded answer
FileInfo(uzel) == MetaFromRaw(uzel)

\* get_file: "if meta.dir: raise IsDirectoryException"
GetFileRefuses(meta) == meta.dir

\* a mutant of UploadAfterCompare: the contents are never found to differ
UploadAfterCompare_NeverDiffers(policy, remote, local) ==
    [policy |-> policy, next |-> IF policy = "UpdateIfDifferent" THEN "done" ELSE "vlso"]

\* a mutant of UploadAfterCompare: the return for equal contents is missing
UploadAfterCompare_NoReturn(policy, remote, local) ==
    [policy |-> (IF remote # local THEN "Overwrite" ELSE policy), next |-> "vlso"]

\* upload_file after get_file returned: the content comparison, and the return
\* when nothing differs
UploadAfterCompare(policy, remote, local) ==
    LET p == IF remote # local THEN "Overwrite" ELSE policy
    IN  [policy |-> p, next |-> IF p = "UpdateIfDifferent" THEN "done" ELSE "vlso"]

\* a mutant of GetInfoVerb: the directory query is posted
GetInfoVerb_Post == "POST"

\* _get_info: the request is a GET
GetInfoVerb == "GET"

\* get_file: the content request
GetDownload ==
    /\ pc = "download"
    /\ \E rsp \in DownloadReplies(store, loc.path) :
         LET r == IF rsp.net THEN InfoRaised("FileAPIException", "connection")
                  ELSE InfoReturned(NoUzel)
         IN  /\ wire' = Append(wire, Sent("GET", "download", None, r, rsp.net))
             /\ IF r.raised
                THEN Done(Propagate(r)) /\ loc' = loc
                ELSE /\ pc' = "info"
                     /\ ret' = ret
                     /\ loc' = [loc EXCEPT !.content = rsp.content]
    /\ UNCHANGED <<store, call, lastMade, otherActed, store0, peer>>

\* get_file: the metadata request (file_info), the directory check and the
\* return; in upload_file the comparison with the local file follows
GetInfo ==
    /\ pc = "info"
    /\ \E rsp \in InfoReplies(store, loc.path) :
         LET r == GetInfoResult(rsp)
             meta == FileInfo(r.uzel)
             cmp == UploadAfterCompare(loc.on_conflict, loc.content, call.local)
         IN  /\ wire' = Append(wire, Sent(GetInfoVerb, "fmgr_api", None, r, rsp \in InfoFaults))
             /\ IF r.raised
                THEN Done(Propagate(r)) /\ loc' = loc
                ELSE IF GetFileRefuses(meta)
                THEN Done(Raise("IsDirectoryException", None, "")) /\ loc' = loc
                ELSE IF call.op = "get_file"
                THEN Done(Return("FileData")) /\ loc' = [loc EXCEPT !.meta = meta]
                ELSE /\ loc' = [loc EXCEPT !.on_conflict = cmp.policy]
                     /\ IF cmp.next = "done"
                        THEN Done(Return("None"))
                        ELSE pc' = "vlso" /\ ret' = ret
    /\ UNCHANGED <<store, call, lastMade, otherActed, store0, peer>>

\* ------------------------------------------------------------------
\* upload_file
\* ------------------------------------------------------------------

\* a mutant of UploadAfterList: Ignore is not told apart from UpdateIfDifferent
UploadAfterList_IgnoreCompares(policy, long_name, description, meta) ==
    IF meta = NoMeta
    THEN [policy |-> "Error", next |-> "vlso"]
    ELSE IF long_name # meta.name \/ description # meta.annotation
    THEN [policy |-> "Overwrite", next |-> "vlso"]
    ELSE [policy |-> policy, next |-> "download"]

\* a mutant of UploadAfterList: with no entry found the policy becomes Overwrite
UploadAfterList_NoEntryOverwrites(policy, long_name, description, meta) ==
    IF meta = NoMeta
    THEN [policy |-> "Overwrite", next |-> "vlso"]
    ELSE IF policy = "Ignore"
    THEN [policy |-> policy, next |-> "done"]
    ELSE IF long_name # meta.name \/ description # meta.annotation
    THEN [policy |-> "Overwrite", next |-> "vlso"]
    ELSE [policy |-> policy, next |-> "download"]

\* a mutant of UploadAfterList: equal long name and description end the call
UploadAfterList_MetaOnly(policy, long_name, description, meta) ==
    IF meta = NoMeta
    THEN [policy |-> "Error", next |-> "vlso"]
    ELSE IF policy = "Ignore"
    THEN [policy |-> policy, next |-> "done"]
    ELSE IF long_name # meta.name \/ description # meta.annotation
    THEN [policy |-> "Overwrite", next |-> "vlso"]
    ELSE [policy |-> policy, next |-> "done"]

\* upload_file after the listing: what the entry found (or None) and the policy
\* decide.  The local file is taken to be readable.
UploadAfterList(policy, long_name, description, meta) ==
    IF meta = NoMeta
    THEN [policy |-> "Error", next |-> "vlso"]
    ELSE IF policy = "Ignore"
    THEN [policy |-> policy, next |-> "done"]
    ELSE IF long_name # meta.name \/ description # meta.annotation
    THEN [policy |-> "Overwrite", next |-> "vlso"]
    ELSE [policy |-> policy, next |-> "download"]

\* upload_file: the listing of the effective folder
UploadList ==
    /\ pc = "list"
    /\ \E rsp \in InfoReplies(store, loc.furl) :
         LET r == GetInfoResult(rsp)
             meta == DirGet(ListDirectory(r.uzel), loc.basename)
             d == UploadAfterList(call.on_conflict, call.long_name,
                                  call.description, meta)
         IN  /\ wire' = Append(wire, Sent(GetInfoVerb, "fmgr_api", None, r, rsp \in InfoFaults))
             /\ IF r.raised
                THEN Done(Propagate(r)) /\ loc' = loc
                ELSE /\ loc' = [loc EXCEPT !.listed = TRUE, !.meta = meta,
                                           !.path = meta.ispath,
                                           !.on_conflict = d.policy]
                     /\ IF d.next = "done"
                        THEN Done(Return("None"))
                        ELSE pc' = d.next /\ ret' = ret
    /\ UNCHANGED <<store, call, lastMade, otherActed, store0, peer>>

\* upload_file: the arguments of the upload request
UploadArgs(furl, basename, long_name, description, kolize) ==
    [op |-> <<"vlso">>, furl |-> furl, jmeno_souboru_0 |-> basename,
     nazev_0 |-> long_name, popis_0 |-> description, kolize |-> kolize]

\* upload_file: the upload request; to_is raises before anything is sent when
\* the policy has no collision code
UploadPost ==
    /\ pc = "vlso"
    /\ LET kolize == ToIs(loc.on_conflict)
           args == UploadArgs(loc.furl, loc.basename, call.long_name,
                              call.description, kolize)
       IN  /\ loc' = [loc EXCEPT !.to_is = loc.on_conflict]
           /\ IF kolize = ValueError
              THEN /\ Done(Raise("ValueError", None, ""))
                   /\ UNCHANGED <<store, wire>>
              ELSE \E a \in PostReplies(store, RfmgrForm(args), call.local) :
                     LET r == RfmgrResult(a.rsp)
                     IN  /\ store' = a.st
                         /\ wire' = Append(wire, Sent("POST", "vlso", kolize, r, a.fault))
                         /\ IF r.raised THEN Done(Propagate(r)) ELSE Done(Return("None"))
    /\ UNCHANGED <<call, lastMade, otherActed, store0, peer>>

\* ------------------------------------------------------------------
\* list_directory and file_info, called by the caller
\* ------------------------------------------------------------------

\* A folder /w that no one writes to, outside the store: it holds a file a, a
\* folder b with two entries and an empty folder c.  The server's answer for it
\* nests the first entry of b, one level deeper than a listing goes.
PW == <<"/", "w">>

WideChild(short, count, hasobj, nested) ==
    LET k == PW \o <<Slash>> \o short
    IN  [cesta |-> k, zkratka |-> short, nazev |-> short, popis |-> None,
         pocet_poduzlu |-> count,
         objekty |-> (IF hasobj
                      THEN <<[cesta |-> k, jmeno_souboru |-> short,
                              mime_type |-> <<"m">>, objekt_id |-> <<"1">>]>>
                      ELSE <<>>),
         poduzly |-> nested]

SrvWide ==
    [cesta |-> PW, zkratka |-> <<"w">>, nazev |-> <<"w">>, popis |-> None,
     pocet_poduzlu |-> 3, objekty |-> <<>>,
     poduzly |-> <<WideChild(<<"c">>, 0, FALSE, <<>>),
                   WideChild(<<"b">>, 2, FALSE,
                             <<WideChild(<<"b", "/", "g">>, 0, TRUE, <<>>)>>),
                   WideChild(<<"a">>, 0, TRUE, <<>>)>>]

\* the directory query, for the store and for /w
SrvInfoWide(st, path) ==
    IF SrvKey(path) = PW
    THEN [net |-> FALSE, body |-> "json", chyba |-> None, uzel |-> SrvWide]
    ELSE SrvInfo(st, path)

ReadPaths == {PD, PX, PX \o <<Slash>>, PF, PW}

\* list_directory(path)
CallListDirectory ==
    /\ pc = "idle"
    /\ \E p \in ReadPaths :
           Begin([NoCall EXCEPT !.op = "list_directory", !.is_path = p],
                 [NoLoc EXCEPT !.path = p],
                 "ls")

\* file_info(path)
CallFileInfo ==
    /\ pc = "idle"
    /\ \E p \in ReadPaths :
           Begin([NoCall EXCEPT !.op = "file_info", !.is_path = p],
                 [NoLoc EXCEPT !.path = p],
                 "finfo")

\* list_directory: the directory query and the DirMeta built from its answer
ListQuery ==
    /\ pc = "ls"
    /\ \E rsp \in {SrvInfoWide(store, loc.path)} \cup InfoFaults :
         LET r == GetInfoResult(rsp)
         IN  /\ wire' = Append(wire, Sent(GetInfoVerb, "fmgr_api", None, r,
                                          rsp \in InfoFaults))
             /\ IF r.raised
                THEN Done(Propagate(r)) /\ loc' = loc
                ELSE /\ Done(Return("DirMeta"))
                     /\ loc' = [loc EXCEPT !.uzel = r.uzel,
                                           !.meta = ListDirectory(r.uzel)]
    /\ UNCHANGED <<store, call, lastMade, otherActed, store0, peer>>

\* file_info: the directory query and the metadata built from its answer
InfoQuery ==
    /\ pc = "finfo"
    /\ \E rsp \in {SrvInfoWide(store, loc.path)} \cup InfoFaults :
         LET r == GetInfoResult(rsp)
         IN  /\ wire' = Append(wire, Sent(GetInfoVerb, "fmgr_api", None, r,
                                          rsp \in InfoFaults))
             /\ IF r.raised
                THEN Done(Propagate(r)) /\ loc' = loc
                ELSE /\ Done(Return("Meta"))
                     /\ loc' = [loc EXCEPT !.uzel = r.uzel, !.meta = FileInfo(r.uzel)]
    /\ UNCHANGED <<store, call, lastMade, otherActed, store0, peer>>

\* ------------------------------------------------------------------
\* upload_zip
\* ------------------------------------------------------------------

\* upload_zip: the arguments of the import request; igntop and prep are sent
\* only when asked for
UploadZipArgs(is_path, use_metadata, ignore_top_level_dir, overwrite) ==
    [op |-> <<"imzi">>,
     furl |-> is_path,
     servis |-> (IF use_metadata THEN <<"a">> ELSE <<"n">>),
     filename |-> <<"upload.zip">>,
     igntop |-> (IF ignore_top_level_dir THEN <<"a">> ELSE None),
     prep |-> (IF overwrite THEN <<"a">> ELSE None)]

ZipPaths == {PD, PX \o <<Slash>>}

\* upload_zip(is_path, zip_path, use_metadata, ignore_top_level_dir, overwrite)
CallUploadZip ==
    /\ pc = "idle"
    /\ \E p \in ZipPaths, um \in BOOLEAN, ig \in BOOLEAN, ov \in BOOLEAN :
           Begin([NoCall EXCEPT !.op = "upload_zip", !.is_path = p, !.use_metadata = um,
                                !.ignore_top_level_dir = ig, !.overwrite = ov],
                 NoLoc,
                 "imzi")

\* every shape of answer a POST can get: the connection fails or not, the
\* status, how the body starts, and what the decoded body holds
AnyResponses ==
    [net : BOOLEAN, status : {200, 500}, body : {"json", "perm", "other"},
     json : {JsonOk, JsonErr(SrvOtherText), JsonErr(EmptyText)}]

\* upload_zip: the import request.  The entries of the archive land outside the
\* paths the model follows.
UploadZipPost ==
    /\ pc = "imzi"
    /\ LET args == UploadZipArgs(call.is_path, call.use_metadata,
                                 call.ignore_top_level_dir, call.overwrite)
           form == RfmgrForm(args)
       IN  \E rsp \in AnyResponses :
             LET r == RfmgrResult(rsp)
             IN  /\ wire' = Append(wire, Sent("POST", "imzi", None, r, rsp # HttpOk(JsonOk)))
                 /\ loc' = [loc EXCEPT !.rsp = rsp, !.furl = form.furl]
                 /\ IF r.raised THEN Done(Propagate(r)) ELSE Done(Return("None"))
    /\ UNCHANGED <<store, call, lastMade, otherActed, store0, peer>>

\* ------------------------------------------------------------------
\* A second caller of mkdir
\* ------------------------------------------------------------------

PeerPaths == {PX, PX \o <<Slash>>}

\* mkdir(is_path, long_name, description), called by the second caller
PeerCallMkdir ==
    /\ peer.pc = "idle"
    /\ \E p \in PeerPaths, lb \in DirLabels :
         peer' = [NoPeer EXCEPT !.pc = "strip", !.arg = p, !.is_path = p,
                                !.long_name = lb[1], !.description = lb[2],
                                !.before = store]
    /\ UNCHANGED <<store, pc, call, loc, wire, ret, lastMade, otherActed, store0>>

\* _mkdir of the second caller, one turn of the while loop
PeerStrip ==
    /\ peer.pc = "strip"
    /\ IF EndsWithSlash(peer.is_path)
       THEN peer' = [peer EXCEPT !.is_path = Dirname(@)]
       ELSE peer' = [peer EXCEPT !.pc = "vlsl"]
    /\ UNCHANGED <<store, pc, call, loc, wire, ret, lastMade, otherActed, store0>>

\* the create-folder request of the second caller, and mkdir's result
PeerCreate ==
    /\ peer.pc = "vlsl"
    /\ LET args == MkdirArgs(peer.is_path, peer.long_name, peer.description)
       IN  \E a \in PostReplies(store, RfmgrForm(args), NoFilePage) :
             LET r == RfmgrResult(a.rsp)
                 resIsNone == MkdirCatches(r)
             IN  /\ store' = a.st
                 /\ peer' = [peer EXCEPT
                        !.pc = "done",
                        !.fault = a.fault,
                        !.ret = IF r.raised /\ ~resIsNone THEN Propagate(r)
                                ELSE Return(IF resIsNone THEN "False" ELSE "True")]
    /\ UNCHANGED <<pc, call, loc, wire, ret, lastMade, otherActed, store0>>

\* ------------------------------------------------------------------
\* Another actor on the same store
\* ------------------------------------------------------------------

\* writes a file: a new one, or new bytes into one that is there
OtherPut ==
    /\ \E k \in {PX, PF}, d \in Contents :
         /\ SrvIsDir(store, Dirname(k))
         /\ store[k].kind \in {"absent", "file"}
         /\ store[k].data # d
         /\ store' = [store EXCEPT ![k] =
                IF @.kind = "file" THEN [@ EXCEPT !.data = d] ELSE NewFile(None, None, d)]
    /\ otherActed' = TRUE
    /\ UNCHANGED <<pc, call, loc, wire, ret, lastMade, store0, peer>>

\* removes an entry that has nothing below it
OtherRemove ==
    /\ \E k \in {PX, PF} :
         /\ store[k].kind # "absent"
         /\ SrvChildren(store, k) = {}
         /\ store' = [store EXCEPT ![k] = Absent]
    /\ otherActed' = TRUE
    /\ UNCHANGED <<pc, call, loc, wire, ret, lastMade, store0, peer>>

\* ------------------------------------------------------------------
\* Specification
\* ------------------------------------------------------------------

\* a caller that creates folders and drop folders
NextDirs ==
    \/ CallMkdir
    \/ CallMkdrop
    \/ MkdirStrip
    \/ MkdirCreate
    \/ MkdropOpen
    \/ MkdropGrant
    \/ MkdropAttrs
    \/ Finish
    \/ OtherPut
    \/ OtherRemove

SpecDirs == Init /\ [][NextDirs]_vars

\* a caller that uploads and fetches files
NextFiles ==
    \/ CallUploadFile
    \/ CallGetFile
    \/ UploadList
    \/ GetDownload
    \/ GetInfo
    \/ UploadPost
    \/ Finish
    \/ OtherPut
    \/ OtherRemove

SpecFiles == Init /\ [][NextFiles]_vars

\* a caller that only reads
NextReads ==
    \/ CallListDirectory
    \/ CallFileInfo
    \/ CallGetFile
    \/ ListQuery
    \/ InfoQuery
    \/ GetDownload
    \/ GetInfo
    \/ Finish
    \/ OtherPut
    \/ OtherRemove

SpecReads == Init /\ [][NextReads]_vars

\* one call of any public operation, with no other actor
NextOnce ==
    \/ CallListDirectory
    \/ CallFileInfo
    \/ CallGetFile
    \/ CallUploadFile
    \/ CallMkdir
    \/ CallMkdrop
    \/ CallUploadZip
    \/ ListQuery
    \/ InfoQuery
    \/ GetDownload
    \/ GetInfo
    \/ UploadList
    \/ UploadPost
    \/ MkdirStrip
    \/ MkdirCreate
    \/ MkdropOpen
    \/ MkdropGrant
    \/ MkdropAttrs
    \/ UploadZipPost

SpecOnce == Init /\ [][NextOnce]_vars

\* two callers of mkdir at once
NextRace ==
    \/ CallMkdir
    \/ MkdirStrip
    \/ MkdirCreate
    \/ PeerCallMkdir
    \/ PeerStrip
    \/ PeerCreate

SpecRace == Init /\ [][NextRace]_vars

\* one call of mkdir, whose steps are taken as long as there is one to take
NextStrip ==
    \/ CallMkdir
    \/ MkdirStrip
    \/ MkdirCreate

SpecStrip ==
    Init /\ [][NextStrip]_vars /\ WF_vars(MkdirStrip) /\ WF_vars(MkdirCreate)

\* a caller that only calls mkdrop, on a path that is absent at the start
InitDrop == Init /\ store[PX].kind = "absent"

NextDrop ==
    \/ CallMkdrop
    \/ MkdirStrip
    \/ MkdirCreate
    \/ MkdropOpen
    \/ MkdropGrant
    \/ MkdropAttrs
    \/ Finish

SpecDrop == InitDrop /\ [][NextDrop]_vars

\* a caller that does either
Next == NextDirs \/ NextFiles

Spec == Init /\ [][Next]_vars

\* ------------------------------------------------------------------
\* Properties
\* ------------------------------------------------------------------

\* the ops of the wire requests sent so far, in order
WireOps == [i \in 1..Len(wire) |-> wire[i].op]

\* how many requests with this op were sent
Count(op) == Cardinality({i \in 1..Len(wire) : wire[i].op = op})

\* no request of the operation got an answer other than the store's own
NoFault == \A i \in 1..Len(wire) : ~wire[i].fault

\* the folder a mkdir or mkdrop call names
Target == SrvKey(call.is_path)

\* an answer of the create-folder request that says "already exists"
SaysExists(w) ==
    /\ ~w.ok
    /\ w.why = "chyba"
    /\ w.api_error \in {SrvExistsText, SrvShortExistsText}

\* C1: mkdir is idempotent.  With no other actor and no failing request, a
\* mkdir on an absent path (in a folder that exists) returns true; a mkdir that
\* follows a mkdir which created the same path returns false, raises nothing,
\* and leaves the store as the first call left it.
C1_MkdirTwice ==
    (pc = "done" /\ call.op = "mkdir" /\ ~otherActed /\ NoFault) =>
        /\ (SrvNode(store0, Target).kind = "absent" /\ SrvIsDir(store0, Dirname(Target)))
              => ret = Return("True")
        /\ call.after = Target
              => (ret = Return("False") /\ store = store0)

C1_Witness ==
    /\ pc = "done" /\ call.op = "mkdir" /\ ~otherActed /\ NoFault
    /\ call.after = Target
    /\ ret = Return("False")
    /\ store0[Target].kind = "dir"

\* C2: mkdrop on a path whose folder exists returns false at once: once the
\* create-folder request has answered "already exists" the call is over with
\* the result false and no further request, with or without a deadline; an
\* existing folder gets that answer, and the store is not changed.
C2_MkdropExisting ==
    (call.op = "mkdrop" /\ Len(wire) >= 1) =>
        /\ SaysExists(wire[1]) =>
              /\ pc = "done"
              /\ ret = Return("False")
              /\ WireOps = <<"vlsl">>
        /\ (SrvNode(store0, Target).kind # "absent" /\ ~otherActed /\ NoFault) =>
              /\ SaysExists(wire[1])
              /\ store = store0

C2_Witness ==
    /\ call.op = "mkdrop" /\ call.deadline # None
    /\ pc = "done" /\ ~otherActed /\ NoFault
    /\ store0[Target].kind = "dir"
    /\ ret = Return("False")

\* the requests of a mkdrop that sets up a new folder, in order
MkdropOrder(deadline) ==
    IF deadline # None THEN <<"vlsl", "zmpr2", "zmpr", "zmat">>
    ELSE <<"vlsl", "zmpr2", "zmat">>

IsPrefix(a, b) == Len(a) <= Len(b) /\ a = SubSeq(b, 1, Len(a))

AllOk == \A i \in 1..Len(wire) : wire[i].ok

\* C3: a mkdrop on a fresh path with no failing request sends create-folder,
\* open-permissions, add-permission exactly when a deadline was given, then
\* set-attributes (once), in this order, and returns true only after
\* set-attributes succeeded.
C3_MkdropOrder ==
    call.op = "mkdrop" =>
        /\ AllOk => IsPrefix(WireOps, MkdropOrder(call.deadline))
        /\ (pc = "done" /\ AllOk) =>
              (WireOps = MkdropOrder(call.deadline) /\ ret = Return("True"))
        /\ ret = Return("True") =>
              (WireOps = MkdropOrder(call.deadline) /\ AllOk /\ Count("zmat") = 1)

C3_Witness ==
    /\ call.op = "mkdrop" /\ call.deadline # None
    /\ pc = "done" /\ ret = Return("True")
    /\ WireOps = <<"vlsl", "zmpr2", "zmpr", "zmat">>
    /\ store[Target].attrs = DropAttrs
    /\ store[Target].grant = <<"w", "@", "2", "0", "2", "6", "0", "1", "0", "5", "0", "9", "3", "0">>

\* C4: upload_file with Ignore, once the listing shows an entry with the
\* effective file name, returns without error having sent no upload and no
\* download, whatever the entry is; the store is unchanged.
C4_IgnoreExisting ==
    (call.op = "upload_file" /\ call.on_conflict = "Ignore"
        /\ loc.listed /\ loc.meta # NoMeta) =>
        /\ pc = "done"
        /\ ret = Return("None")
        /\ WireOps = <<"fmgr_api">>
        /\ Count("vlso") = 0 /\ Count("download") = 0
        /\ ~otherActed => store = store0

C4_Witness ==
    /\ call.op = "upload_file" /\ call.on_conflict = "Ignore"
    /\ loc.listed /\ loc.meta # NoMeta
    /\ pc = "done"
    /\ loc.meta.name # call.long_name
    /\ store0[PX].kind = "file" /\ store0[PX].data # call.local

\* the upload requests sent so far
Uploads == {i \in 1..Len(wire) : wire[i].op = "vlso"}

\* the entry with the effective file name differs from the call in long name
\* or description
MetaDiffers ==
    call.long_name # loc.meta.name \/ call.description # loc.meta.annotation

\* get_file, called by upload_file on the entry found, returned the contents
GotRemote ==
    /\ Len(wire) >= 3
    /\ wire[2].op = "download" /\ wire[2].ok
    /\ wire[3].op = "fmgr_api" /\ wire[3].ok
    /\ ret.exc # "IsDirectoryException"

\* C5: upload_file with UpdateIfDifferent and an entry with the effective file
\* name in the listing sends exactly one upload, with code wr, when the long
\* name or the description differs or the contents get_file returned differ
\* from the local file; when all three are equal it sends no upload and
\* returns.  The contents are downloaded only when long name and description
\* are equal; when get_file raises, nothing is uploaded and the call raises.
C5_UpdateIfDifferent ==
    (pc = "done" /\ call.op = "upload_file" /\ call.on_conflict = "UpdateIfDifferent"
        /\ loc.listed /\ loc.meta # NoMeta) =>
        /\ \A i \in Uploads : wire[i].kolize = <<"w", "r">>
        /\ MetaDiffers => (Count("vlso") = 1 /\ Count("download") = 0)
        /\ ~MetaDiffers => Count("download") = 1
        /\ (~MetaDiffers /\ GotRemote /\ loc.content # call.local) => Count("vlso") = 1
        /\ (~MetaDiffers /\ GotRemote /\ loc.content = call.local) =>
              (Count("vlso") = 0 /\ ret = Return("None"))
        /\ (~MetaDiffers /\ ~GotRemote) => (Count("vlso") = 0 /\ ret.kind = "raise")

C5_Witness ==
    /\ pc = "done" /\ call.op = "upload_file" /\ call.on_conflict = "UpdateIfDifferent"
    /\ loc.listed /\ loc.meta # NoMeta
    /\ ~MetaDiffers /\ GotRemote /\ loc.content \in Contents /\ loc.content # call.local
    /\ WireOps = <<"fmgr_api", "download", "fmgr_api", "vlso">>
    /\ wire[4].ok

\* C6: upload_file with Ignore or UpdateIfDifferent, when the listing holds no
\* entry with the effective file name, sends exactly one upload, with code er,
\* and downloads nothing.
C6_NoEntryUploadsEr ==
    (call.op = "upload_file" /\ ClientSide(call.on_conflict)
        /\ loc.listed /\ loc.meta = NoMeta) =>
        /\ pc \in {"vlso", "done"}
        /\ Count("download") = 0
        /\ pc = "vlso" => Count("vlso") = 0
        /\ pc = "done" => (WireOps = <<"fmgr_api", "vlso">> /\ wire[2].kolize = <<"e", "r">>)

C6_Witness ==
    /\ call.op = "upload_file" /\ call.on_conflict = "UpdateIfDifferent"
    /\ loc.listed /\ loc.meta = NoMeta
    /\ pc = "done" /\ ret = Return("None")
    /\ store[PF].kind = "file" /\ store0[PF].kind = "absent"

\* the collision code of each policy the wire protocol knows
KolizeOf(policy) ==
    CASE policy = "Error" -> <<"e", "r">>
      [] policy = "Overwrite" -> <<"w", "r">>
      [] policy = "Rename" -> <<"r", "e">>
      [] OTHER -> None

\* C7: whenever upload_file reaches the upload step the effective policy is
\* Error, Overwrite or Rename: the code sent is er, wr or re as the policy
\* says, to_is is never called on Ignore or UpdateIfDifferent, and no
\* ValueError is raised.
C7_WirePolicy ==
    call.op = "upload_file" =>
        /\ pc = "vlso" => loc.on_conflict \in {"Error", "Overwrite", "Rename"}
        /\ loc.to_is \in {"none", "Error", "Overwrite", "Rename"}
        /\ ret.exc # "ValueError"
        /\ \A i \in Uploads :
              /\ wire[i].kolize \in {<<"e", "r">>, <<"w", "r">>, <<"r", "e">>}
              /\ wire[i].kolize = KolizeOf(loc.to_is)

C7_Witness ==
    /\ call.op = "upload_file" /\ call.on_conflict = "UpdateIfDifferent"
    /\ pc = "done"
    /\ loc.to_is = "Overwrite"
    /\ Count("download") = 1
    /\ \E i \in Uploads : wire[i].kolize = <<"w", "r">>

\* C8 as claimed: get_file on a path that is a folder, empty or not, raises
\* IsDirectoryException; the content request comes before the metadata
\* request; a FileData is returned only for a path that is no folder.
C8_GetFileOnDirectory ==
    (call.op = "get_file" /\ ~otherActed /\ NoFault) =>
        /\ IsPrefix(WireOps, <<"download", "fmgr_api">>)
        /\ (pc = "done" /\ SrvIsDir(store0, SrvKey(call.is_path)))
              => ret = Raise("IsDirectoryException", None, "")
        /\ ret = Return("FileData") => ~SrvIsDir(store0, SrvKey(call.is_path))

\* the entry an upload_file call writes to
UploadTarget == ChildPath(SrvKey(loc.furl), loc.basename)

\* C9: upload_file with Error lists nothing and downloads nothing and sends
\* exactly one upload, with code er; when the entry exists the server's
\* "already exists" error reaches the caller with the server's string
\* unchanged, and the store is not changed.
C9_ErrorPolicy ==
    (call.op = "upload_file" /\ call.on_conflict = "Error") =>
        /\ Count("fmgr_api") = 0 /\ Count("download") = 0
        /\ pc = "vlso" => wire = <<>>
        /\ pc = "done" => (WireOps = <<"vlso">> /\ wire[1].kolize = <<"e", "r">>)
        /\ (pc = "done" /\ ~otherActed /\ NoFault
               /\ SrvNode(store0, UploadTarget).kind # "absent") =>
              /\ ret = Raise("FileAPIException", SrvFileExistsText, "chyba")
              /\ store = store0

C9_Witness ==
    /\ call.op = "upload_file" /\ call.on_conflict = "Error"
    /\ pc = "done" /\ ~otherActed /\ NoFault
    /\ UploadTarget = PF
    /\ store0[PF].kind = "file" /\ store0[PF].data # call.local
    /\ ret.api_error = SrvFileExistsText

\* the create-folder request failed with one of the two "already exists"
\* strings in the server's error
ExistsSentinel(w) ==
    /\ ~w.ok
    /\ w.why = "chyba"
    /\ w.api_error # None
    /\ (Contains(w.api_error, EXISTS_MSG) \/ Contains(w.api_error, SHORT_EXISTS_MSG))

\* C10: mkdir returns false only for a create-folder failure that is a server
\* error holding one of the two "already exists" strings; every other failure
\* (a server error with another text, no connection, a status other than 200,
\* the non-personal-account page, a malformed body) reaches the caller as it
\* was raised.
C10_MkdirPropagates ==
    (pc = "done" /\ call.op = "mkdir") =>
        /\ Len(wire) = 1 /\ wire[1].op = "vlsl"
        /\ ret = Return("False") <=> ExistsSentinel(wire[1])
        /\ ret = Return("True") <=> wire[1].ok
        /\ (~wire[1].ok /\ ~ExistsSentinel(wire[1])) =>
              ret = Raise("FileAPIException", wire[1].api_error, wire[1].why)

C10_Witness ==
    /\ pc = "done" /\ call.op = "mkdir"
    /\ ~wire[1].ok /\ wire[1].why = "chyba" /\ wire[1].api_error = SrvOtherText
    /\ ~wire[1].fault
    /\ ret.kind = "raise" /\ ret.api_error = SrvOtherText


\* the answer the import request of upload_zip got
ZipDone == pc = "done" /\ call.op = "upload_zip"

\* C11: the POST transport raises at the first condition that holds, in this
\* order: the connection failed, the status is not 200, the body starts with
\* the non-personal-account text, the body does not start with "{", the decoded
\* body holds an error; it returns only when none holds, and the exception
\* carries the server's error string exactly when it was raised for the error
\* in the decoded body.
C11_PostPrecedence ==
    ZipDone =>
        LET rsp == loc.rsp
            c1 == rsp.net
            c2 == rsp.status # 200
            c3 == rsp.body = "perm"
            c4 == rsp.body # "json"
            c5 == rsp.json.chyba # None
        IN  /\ c1 => (ret.kind = "raise" /\ ret.why = "connection")
            /\ (~c1 /\ c2) => (ret.kind = "raise" /\ ret.why = "status")
            /\ (~c1 /\ ~c2 /\ c3) => (ret.kind = "raise" /\ ret.why = "permission")
            /\ (~c1 /\ ~c2 /\ ~c3 /\ c4) => (ret.kind = "raise" /\ ret.why = "format")
            /\ (~c1 /\ ~c2 /\ ~c3 /\ ~c4 /\ c5) =>
                  (ret.kind = "raise" /\ ret.why = "chyba" /\ ret.api_error = rsp.json.chyba)
            /\ ret.kind = "return" <=> (~c1 /\ ~c2 /\ ~c3 /\ ~c4 /\ ~c5)
            /\ ret.api_error # None <=> (ret.kind = "raise" /\ ret.why = "chyba")
            /\ ret.kind = "raise" => ret.exc = "FileAPIException"

C11_Witness ==
    /\ ZipDone
    /\ ~loc.rsp.net /\ loc.rsp.status = 500 /\ loc.rsp.body = "perm"
    /\ loc.rsp.json.chyba = SrvOtherText
    /\ ret = Raise("FileAPIException", None, "status")

\* the sequences of wire requests an operation can send, each request once
Plans(op) ==
    CASE op = "list_directory" -> {<<"fmgr_api">>}
      [] op = "file_info" -> {<<"fmgr_api">>}
      [] op = "get_file" -> {<<"download", "fmgr_api">>}
      [] op = "upload_file" -> {<<"vlso">>, <<"fmgr_api", "vlso">>,
                                <<"fmgr_api", "download", "fmgr_api", "vlso">>}
      [] op = "mkdir" -> {<<"vlsl">>}
      [] op = "mkdrop" -> {<<"vlsl", "zmpr2", "zmat">>, <<"vlsl", "zmpr2", "zmpr", "zmat">>}
      [] op = "upload_zip" -> {<<"imzi">>}
      [] OTHER -> {<<>>}

\* a create-folder failure that _mkdir recognises as "already exists"
Recognised(i) ==
    /\ call.op \in {"mkdir", "mkdrop"}
    /\ wire[i].op = "vlsl"
    /\ ExistsSentinel(wire[i])

\* C12: no retry and fail-fast.  In every public operation the requests sent
\* are the beginning of the operation's sequence of requests, each sent once;
\* a request that failed is the last one sent, the operation has ended, and the
\* failure is what the caller gets (mkdir's recognised "already exists" ends
\* the operation with false instead).
C12_NoRetryFailFast ==
    /\ \E plan \in Plans(call.op) : IsPrefix(WireOps, plan)
    /\ \A i \in 1..Len(wire) :
         ~wire[i].ok =>
            /\ i = Len(wire)
            /\ pc = "done"
            /\ IF Recognised(i)
               THEN ret = Return("False")
               ELSE /\ ret.kind = "raise"
                    /\ ret.why = wire[i].why
                    /\ ret.api_error = wire[i].api_error

C12_Witness ==
    /\ pc = "done" /\ call.op = "mkdrop" /\ call.deadline # None
    /\ WireOps = <<"vlsl", "zmpr2", "zmpr">>
    /\ wire[1].ok /\ wire[2].ok /\ ~wire[3].ok /\ wire[3].why = "status"
    /\ ret = Raise("FileAPIException", None, "status")

\* list_directory returned
Listed == pc = "done" /\ call.op = "list_directory" /\ ret.kind = "return"

\* C13: list_directory returns, for every answer it accepts, a DirMeta with the
\* directory flag set, also when the root node of the answer has child count 0
\* and no embedded object.
C13_ListReturnsDirMeta ==
    /\ Listed => (ret.val = "DirMeta" /\ loc.meta.dir)
    /\ (pc = "done" /\ call.op = "list_directory" /\ wire[1].ok) => Listed

C13_Witness ==
    /\ Listed
    /\ loc.uzel.pocet_poduzlu = 0 /\ loc.uzel.objekty = <<>>
    /\ loc.uzel.cesta = PX
    /\ loc.meta.dir

\* C14: a listing expands one level.  The DirMeta list_directory returns has
\* one entry per child record of the answer, in the answer's order; an entry is
\* a FileMeta when its record has child count 0 and a DirMeta otherwise; and an
\* entry that is a DirMeta has no entries of its own.
C14_OneLevel ==
    Listed =>
        LET recs == loc.uzel.poduzly
            ents == loc.meta.entries
        IN  /\ Len(ents) = Len(recs)
            /\ \A i \in 1..Len(recs) :
                 /\ ents[i].dir <=> recs[i].pocet_poduzlu # 0
                 /\ ents[i] = (IF recs[i].pocet_poduzlu = 0
                               THEN FileMeta(recs[i]) ELSE DirMeta(recs[i]))
                 /\ ents[i].dir => ents[i].entries = <<>>

C14_Witness ==
    /\ Listed
    /\ Len(loc.uzel.poduzly) = 3
    /\ Len(loc.meta.entries) = 3
    /\ loc.uzel.poduzly[2].pocet_poduzlu = 2 /\ Len(loc.uzel.poduzly[2].poduzly) = 1
    /\ loc.meta.entries[2].dir /\ loc.meta.entries[2].entries = <<>>
    /\ ~loc.meta.entries[1].dir /\ ~loc.meta.entries[3].dir

\* both callers have their results, for the same folder, which was absent
\* (in a folder that exists) when the first of the two called, and every
\* request got the server's own answer
RaceOver ==
    /\ pc = "done" /\ call.op = "mkdir"
    /\ peer.pc = "done"
    /\ SrvKey(peer.arg) = Target
    /\ Target \in Universe
    /\ (store0[Target].kind = "absent" \/ peer.before[Target].kind = "absent")
    /\ SrvIsDir(store0, Dirname(Target))
    /\ NoFault /\ ~peer.fault

\* C15: two callers race mkdir on the same absent path, and the server creates
\* folders atomically.  In every interleaving one call returns true and the
\* other false, neither raises, and one folder is created.
C15_MkdirRace ==
    RaceOver =>
        /\ {ret, peer.ret} = {Return("True"), Return("False")}
        /\ store[Target].kind = "dir"
        /\ \A k \in Universe \ {Target} :
             store[k] = store0[k] /\ store[k] = peer.before[k]

C15_Witness ==
    /\ RaceOver
    /\ store0[Target].kind = "absent" /\ peer.before[Target].kind = "absent"
    /\ ret = Return("False") /\ peer.ret = Return("True")
    /\ wire[1].api_error = SrvShortExistsText

\* C16: the stripping of trailing separators in _mkdir ends for every path,
\* and exactly one create-folder request follows it.
C16_StripTerminates ==
    [](pc = "strip" => <>(pc = "done" /\ WireOps = <<"vlsl">>))

\* a read-only operation is in progress or has ended
ReadOp == call.op \in {"list_directory", "file_info", "get_file"}

\* C17: list_directory, file_info and get_file send only GET requests, never a
\* POST, and leave the store as it was, whether they succeed or fail;
\* list_directory and file_info send one directory query, get_file one
\* download and then one directory query.
C17_ReadsOnlyGet ==
    ReadOp =>
        /\ \A i \in 1..Len(wire) : wire[i].verb = "GET"
        /\ ~otherActed => store = store0
        /\ \E plan \in Plans(call.op) : IsPrefix(WireOps, plan)
        /\ (pc = "done" /\ call.op # "get_file") => WireOps = <<"fmgr_api">>
        /\ (pc = "done" /\ call.op = "get_file" /\ wire[1].ok) =>
              WireOps = <<"download", "fmgr_api">>

C17_Witness ==
    /\ pc = "done" /\ call.op = "get_file" /\ ret = Return("FileData")
    /\ WireOps = <<"download", "fmgr_api">>
    /\ wire[1].verb = "GET" /\ wire[2].verb = "GET"
    /\ ~otherActed /\ store = store0
    /\ store[PX].kind = "file"

\* upload_file, with Ignore or UpdateIfDifferent, found no entry in its listing
\* and is about to upload, and the entry is there now
LostRace ==
    /\ call.op = "upload_file" /\ ClientSide(call.on_conflict)
    /\ loc.listed /\ loc.meta = NoMeta
    /\ pc = "vlso"
    /\ SrvNode(store, UploadTarget).kind # "absent"

\* C18: the check-then-upload race.  When the listing of an upload_file with
\* Ignore or UpdateIfDifferent showed no entry and another actor creates the
\* entry before the upload is processed, the upload is sent with code er, the
\* other actor's entry is not overwritten, and upload_file raises the server's
\* "already exists" error.
C18_CheckThenUpload ==
    [][(LostRace /\ pc' = "done") =>
          /\ wire'[Len(wire')].op = "vlso"
          /\ wire'[Len(wire')].kolize = <<"e", "r">>
          /\ store' = store
          /\ ret'.kind = "raise"
          /\ ~wire'[Len(wire')].fault =>
                ret' = Raise("FileAPIException", SrvFileExistsText, "chyba")]_vars

C18_Witness ==
    /\ pc = "done" /\ call.op = "upload_file" /\ call.on_conflict = "Ignore"
    /\ loc.listed /\ loc.meta = NoMeta
    /\ WireOps = <<"fmgr_api", "vlso">>
    /\ wire[2].kolize = <<"e", "r">> /\ ~wire[2].fault
    /\ ret = Raise("FileAPIException", SrvFileExistsText, "chyba")
    /\ otherActed
    /\ store0[UploadTarget].kind = "absent"
    /\ store[UploadTarget] = NewFile(None, None, store[UploadTarget].data)
    /\ store[UploadTarget].data # call.local

\* C19: with no other actor, an upload_file with UpdateIfDifferent that returns
\* without error leaves an entry with the effective file name whose bytes are
\* the local file's, whatever the entry was before: absent, identical,
\* different in bytes, or different only in long name or description.
C19_UpdateIfDifferentPost ==
    (pc = "done" /\ call.op = "upload_file" /\ call.on_conflict = "UpdateIfDifferent"
        /\ ~otherActed /\ ret.kind = "return") =>
        /\ SrvNode(store, UploadTarget).kind = "file"
        /\ SrvNode(store, UploadTarget).data = call.local

C19_Witness ==
    /\ pc = "done" /\ call.op = "upload_file" /\ call.on_conflict = "UpdateIfDifferent"
    /\ ~otherActed /\ ret = Return("None")
    /\ store0[UploadTarget].kind = "file"
    /\ store0[UploadTarget].data # call.local
    /\ store0[UploadTarget].nazev = call.long_name
    /\ store0[UploadTarget].popis = call.description
    /\ WireOps = <<"fmgr_api", "download", "fmgr_api", "vlso">>
    /\ store[UploadTarget].data = call.local

\* C20: in a sequence of mkdrop calls on one path that was absent at first, in
\* which any request may fail, a mkdrop that returns true or false without
\* raising finds or leaves the folder with its three attributes set by a
\* set-attributes request that succeeded.
C20_DropSetUp ==
    (pc = "done" /\ call.op = "mkdrop" /\ ret.kind = "return") =>
        (SrvIsDir(store, PX) /\ store[PX].attrs = DropAttrs)

=============================================================================
